---- MODULE Spec2Model ----
(***************************************************************************)
(* Model of autocrypt/message.py: the Autocrypt header codec, the encode   *)
(* and decode pipelines, gossip propagation and the setup-message codec.   *)
(*                                                                         *)
(* A Python str is a sequence of one-character strings, so that split,     *)
(* replace, strip and slicing are computed the way Python computes them.   *)
(* A Python exception is the value Raise(kind) in place of a result.       *)
(***************************************************************************)
EXTENDS Integers, Sequences, FiniteSets, TLC

VARIABLES
    pc,               \* position of the running call
    op,               \* the function the sending client calls, if any
    decoder,          \* the function the receiving client calls, if any
    addr,             \* argument addr / sender
    keydata,          \* argument keydata / text
    pe,               \* argument pe (prefer-encrypt), or None
    wrapstr,          \* argument wrapstr of wrap / unwrap
    recipients,       \* argument recipients of the encoder
    passphrase,       \* passphrase given to the setup-message encoder
    pgpy_version,     \* whether the PGP library writes Version armor lines
    sender_profile,   \* profile of the encoding side
    headervaluestr,   \* the str built by gen_ac_headervaluestr / wrap
    headervaluedict,  \* the dict(s) returned by the header parser
    msg,              \* the e-mail Message built or received
    typed_passphrase, \* passphrase given to the decoder
    profile,          \* profile of the decoding side: accounts and peer store
    calls,            \* collaborator calls and error logs of the decoder
    ret               \* value returned (or exception raised) by the call

inputs == <<op, decoder, addr, keydata, pe, wrapstr, recipients, passphrase,
            pgpy_version, sender_profile, typed_passphrase>>

vars == <<pc, inputs, headervaluestr, headervaluedict, msg, profile, calls,
          ret>>

-----------------------------------------------------------------------------
(* Python values *)

None == "None"

\* the outcome of a call: the value it returns, or the exception it raises
Ok(v) == [value |-> v]

\* a call that returns None
ReturnsNone == [none |-> TRUE]

Raise(kind) == [raise |-> kind]

IsRaise(r) == "raise" \in DOMAIN r

Min(S) == CHOOSE x \in S : \A y \in S : x <= y

\* text[i:j] with 0-based Python slice bounds, 0 <= i
Slice(text, i, j) ==
    LET hi == IF j > Len(text) THEN Len(text) ELSE j
    IN  IF i >= hi THEN <<>> ELSE SubSeq(text, i + 1, hi)

\* text is found in s at 1-based position i
MatchAt(s, text, i) ==
    /\ i >= 1
    /\ i + Len(text) - 1 <= Len(s)
    /\ \A k \in 1..Len(text) : s[i + k - 1] = text[k]

\* s.startswith(prefix)
startswith(s, prefix) == MatchAt(s, prefix, 1)

\* first 1-based position >= i where text occurs in s, 0 when there is none
Find(s, text, i) ==
    LET hits == {j \in i..(Len(s) - Len(text) + 1) : MatchAt(s, text, j)}
    IN  IF hits = {} THEN 0 ELSE Min(hits)

RECURSIVE SplitFrom(_, _, _)
SplitFrom(s, sep, i) ==
    LET j == Find(s, sep, i)
    IN  IF j = 0 THEN <<SubSeq(s, i, Len(s))>>
        ELSE <<SubSeq(s, i, j - 1)>> \o SplitFrom(s, sep, j + Len(sep))

\* s.split(sep), sep non-empty
split(s, sep) == SplitFrom(s, sep, 1)

RECURSIVE JoinFrom(_, _, _)
JoinFrom(sep, list, i) ==
    IF i > Len(list) THEN <<>>
    ELSE IF i = Len(list) THEN list[i]
    ELSE list[i] \o sep \o JoinFrom(sep, list, i + 1)

\* sep.join(list)
join(sep, list) == JoinFrom(sep, list, 1)

\* s.replace(old, new); an empty old matches before every character and at the end
replace(s, old, new) ==
    IF old = <<>>
    THEN new \o join(new, [i \in 1..Len(s) |-> <<s[i]>>]) \o
         (IF Len(s) = 0 THEN <<>> ELSE new)
    ELSE join(new, split(s, old))

Whitespace == {" ", "\n", "\t", "\r"}

\* s.strip()
strip(s) ==
    LET keep == {i \in 1..Len(s) : s[i] \notin Whitespace}
    IN  IF keep = {} THEN <<>>
        ELSE SubSeq(s, Min(keep), CHOOSE i \in keep : \A j \in keep : j <= i)

-----------------------------------------------------------------------------
(* Literals of the wire format *)

S_addr == <<"a", "d", "d", "r">>
S_pe == <<"p", "r", "e", "f", "e", "r", "-", "e", "n", "c", "r", "y", "p", "t">>
S_keydata == <<"k", "e", "y", "d", "a", "t", "a">>
S_mutual == <<"m", "u", "t", "u", "a", "l">>
S_nopreference == <<"n", "o", "p", "r", "e", "f", "e", "r", "e", "n", "c", "e">>

\* dict keys ADDR, PE, KEYDATA
ADDR == "addr"
PE == "prefer-encrypt"
KEYDATA == "keydata"

MUTUAL == "mutual"
NOPREFERENCE == "nopreference"
PE_HEADER_TYPES == {None, MUTUAL, NOPREFERENCE}

\* the characters of a key name or of a prefer-encrypt token
Chars(name) ==
    CASE name = ADDR -> S_addr
      [] name = PE -> S_pe
      [] name = KEYDATA -> S_keydata
      [] name = MUTUAL -> S_mutual
      [] name = NOPREFERENCE -> S_nopreference
      [] OTHER -> <<>>

\* "addr=%(addr)s; keydata=%(keydata)s"
AC_HEADER(a, k) ==
    S_addr \o <<"=">> \o a \o <<";", " ">> \o S_keydata \o <<"=">> \o k

\* "addr=%(addr)s; prefer-encrypt=%(pe)s; keydata=%(keydata)s"
AC_HEADER_PE(a, p, k) ==
    S_addr \o <<"=">> \o a \o <<";", " ">> \o S_pe \o <<"=">> \o p \o
    <<";", " ">> \o S_keydata \o <<"=">> \o k

\* "addr=%(addr)s; keydata=%(keydata)s"
AC_GOSSIP_HEADER(a, k) ==
    S_addr \o <<"=">> \o a \o <<";", " ">> \o S_keydata \o <<"=">> \o k

-----------------------------------------------------------------------------
(* Header codec *)

\* default maxlen of wrap and header_wrap
MaxLineLen == 76

\* [text[0 + i:maxlen + i] for i in range(0, len(text), maxlen)]
Chunks(text, maxlen) ==
    [n \in 1..((Len(text) + maxlen - 1) \div maxlen) |->
        Slice(text, (n - 1) * maxlen, n * maxlen)]

\* assert "\n" not in text
WrapAsserts(text) == \A i \in 1..Len(text) : text[i] # "\n"

\* wrap folding one character late
wrap_late(text, maxlen, ws) == ws \o join(ws, Chunks(text, maxlen + 1))

\* wrapstr + wrapstr.join([...]), once the assertion has passed
wrap(text, maxlen, ws) == ws \o join(ws, Chunks(text, maxlen))

unwrap(text, ws) == strip(replace(text, ws, <<>>))

\* "; ".join(["=".join([i, d[i]]) for i in [addr, prefer-encrypt, keydata] if i in d])
gen_headervaluestr_from_headervaluedict(d) ==
    LET order == <<ADDR, PE, KEYDATA>>
        present == SelectSeq(order, LAMBDA k : k \in DOMAIN d)
    IN  join(<<";", " ">>,
             [n \in 1..Len(present) |->
                 Chars(present[n]) \o <<"=">> \o d[present[n]]])

\* re.split('; |;\n ', s)
RECURSIVE ReSplitFrom(_, _)
ReSplitFrom(s, i) ==
    LET a == Find(s, <<";", " ">>, i)
        b == Find(s, <<";", "\n", " ">>, i)
        j == IF a = 0 THEN b ELSE IF b = 0 THEN a ELSE IF a < b THEN a ELSE b
        n == IF j = a THEN 2 ELSE 3
    IN  IF j = 0 THEN <<SubSeq(s, i, Len(s))>>
        ELSE <<SubSeq(s, i, j - 1)>> \o ReSplitFrom(s, j + n)

re_split(s) == ReSplitFrom(s, 1)

\* d[key] = value
SetItem(d, key, value) ==
    [k \in DOMAIN d \cup {key} |-> IF k = key THEN value ELSE d[k]]

\* kv.split(key + '=')[1].strip()
FieldValue(kv, key) == strip(split(kv, Chars(key) \o <<"=">>)[2])

\* the body of the for loop of parse_header_value
ParseField(d, kv) ==
    IF startswith(kv, S_addr \o <<"=">>) THEN SetItem(d, ADDR, FieldValue(kv, ADDR))
    ELSE IF startswith(kv, S_pe \o <<"=">>) THEN SetItem(d, PE, FieldValue(kv, PE))
    ELSE IF startswith(kv, S_keydata \o <<"=">>)
         THEN SetItem(d, KEYDATA, FieldValue(kv, KEYDATA))
    ELSE d

RECURSIVE ParseFields(_, _, _)
ParseFields(d, list, i) ==
    IF i > Len(list) THEN d
    ELSE ParseFields(ParseField(d, list[i]), list, i + 1)

parse_header_value(s) == ParseFields(<<>>, re_split(s), 1)

header_unwrap(s, ws) ==
    LET d == parse_header_value(s)
    IN  IF KEYDATA \notin DOMAIN d THEN Raise("KeyError")
        ELSE Ok(gen_headervaluestr_from_headervaluedict(
                    SetItem(d, KEYDATA, unwrap(d[KEYDATA], ws))))

header_wrap(s) ==
    LET d == parse_header_value(s)
    IN  IF KEYDATA \notin DOMAIN d THEN Raise("KeyError")
        ELSE IF ~WrapAsserts(d[KEYDATA]) THEN Raise("AssertionError")
        ELSE Ok(gen_headervaluestr_from_headervaluedict(
                    SetItem(d, KEYDATA, wrap(d[KEYDATA], MaxLineLen, <<" ">>))))

gen_ac_headervaluestr(a, k, p) ==
    IF k = <<>> \/ p \notin PE_HEADER_TYPES THEN Raise("AssertionError")
    ELSE IF p = None \/ p = NOPREFERENCE THEN Ok(AC_HEADER(a, k))
    ELSE Ok(AC_HEADER_PE(a, Chars(p), k))

gen_gossip_headervalue(a, k) == AC_GOSSIP_HEADER(a, k)

-----------------------------------------------------------------------------
(* E-mail messages: the header list of email.message.Message and a payload *)

AC == "Autocrypt"
AC_GOSSIP == "Autocrypt-Gossip"
AC_SETUP_MSG == "Autocrypt-Setup-Message"
LEVEL_NUMBER == <<"v", "1">>

\* a Message with no headers yet
NewMessage(content, payload) ==
    [headers |-> <<>>, content |-> content, payload |-> payload]

\* msg[name] = value and msg.add_header(name, value): both append an occurrence
add_header(m, name, value) ==
    [m EXCEPT !.headers = Append(@, [name |-> name, value |-> value])]

\* the values of the occurrences of header name, in header order
get_all(m, name) ==
    LET hs == SelectSeq(m.headers, LAMBDA h : h.name = name)
    IN  [n \in 1..Len(hs) |-> hs[n].value]

\* msg.get(name) is not None
has_header(m, name) == get_all(m, name) # <<>>

\* [parse_header_value(v.strip()) for k, v in msg.items() if k == AC]
parse_ac_headers(m) ==
    LET vs == get_all(m, AC)
    IN  [n \in 1..Len(vs) |-> parse_header_value(strip(vs[n]))]

\* add_headers with date, _dto, message_id and _extra left at their defaults
add_headers(m, sender, rcpts, subject) ==
    add_header(add_header(add_header(m, "Subject", subject), "From", sender),
               "To", join(<<",", " ">>, rcpts))

add_ac_headers(m, sender, k, p) ==
    LET ac_header == gen_ac_headervaluestr(sender, k, p)
        ac_header_wrappedstr == header_wrap(ac_header.value)
    IN  IF IsRaise(ac_header) THEN ac_header
        ELSE IF IsRaise(ac_header_wrappedstr) THEN ac_header_wrappedstr
        ELSE Ok(add_header(m, AC, ac_header_wrappedstr.value))

\* MIMEMultipartPGP(encryptedstr)
gen_encrypted_email(encryptedstr) == NewMessage("encrypted", encryptedstr)

-----------------------------------------------------------------------------
(* Collaborators: crypto and storage *)

\* sign_encrypt: an opaque ciphertext that decrypt opens again
sign_encrypt(prof, data, sender, rcpts) ==
    [pt |-> data, signer |-> sender, to |-> rcpts]

\* decrypt(profile, ct, key): the plaintext; no key, no plaintext
decrypt(prof, ct, key) ==
    IF key = <<>> THEN Raise("KeyNotFoundError") ELSE Ok(ct.pt)

get_own_public_keydata(prof, a) == prof.accounts[a].pub

get_peer_keydata(prof, a) == prof.peers[a][KEYDATA]

\* the secret key of an own account, None for any other address
HasSeckey(prof, a) == a \in DOMAIN prof.accounts

\* the record kept for a peer; p holds the prefer-encrypt value when one is given
PeerRecord(k, p) ==
    IF p = <<>> THEN (KEYDATA :> k) ELSE (KEYDATA :> k) @@ (PE :> p[1])

\* new_peer(profile, addr, keydata, pe): insert or update the peer
new_peer(prof, a, k, p) ==
    [prof EXCEPT !.peers =
        [x \in DOMAIN prof.peers \cup {a} |->
            IF x = a THEN PeerRecord(k, p) ELSE prof.peers[x]]]

-----------------------------------------------------------------------------
(* Setup-message codec *)

NL == <<"\n">>

AC_PASSPHRASE_FORMAT == <<"P", "a", "s", "s", "p", "h", "r", "a", "s", "e",
    "-", "F", "o", "r", "m", "a", "t", ":", " ", "n", "u", "m", "e", "r", "i",
    "c", "9", "x", "4">>
AC_PASSPHRASE_BEGIN == <<"P", "a", "s", "s", "p", "h", "r", "a", "s", "e", "-",
    "B", "e", "g", "i", "n", ":", " ">>
AC_PASSPHRASE_BEGIN_LEN == 2
AC_PREFER_ENCRYPT_HEADER == <<"A", "u", "t", "o", "c", "r", "y", "p", "t", "-",
    "P", "r", "e", "f", "e", "r", "-", "E", "n", "c", "r", "y", "p", "t", ":",
    " ">>
AC_SETUP_INTRO == <<"i", "n", "t", "r", "o">>
AC_SETUP_SUBJECT == <<"A", "u", "t", "o", "c", "r", "y", "p", "t", " ", "S",
    "e", "t", "u", "p", " ", "M", "e", "s", "s", "a", "g", "e">>

BEGIN_PGP_MESSAGE == <<"-", "-", "-", "-", "-", "B", "E", "G", "I", "N", " ",
    "P", "G", "P", " ", "M", "E", "S", "S", "A", "G", "E", "-", "-", "-", "-",
    "-">>
END_PGP_MESSAGE == <<"-", "-", "-", "-", "-", "E", "N", "D", " ", "P", "G",
    "P", " ", "M", "E", "S", "S", "A", "G", "E", "-", "-", "-", "-", "-">>
VERSION_PGPY == <<"V", "e", "r", "s", "i", "o", "n", ":", " ", "P", "G", "P",
    "y", " ">>

\* text[i:j] with Python's slice bounds: negative bounds count from the end
PySlice(text, i, j) ==
    LET n == Len(text)
        lo == IF i < 0 THEN (IF i + n < 0 THEN 0 ELSE i + n) ELSE i
        hi == IF j < 0 THEN (IF j + n < 0 THEN 0 ELSE j + n) ELSE j
    IN  Slice(text, lo, hi)

\* text.find(sub): 0-based index, -1 when sub does not occur
find(text, sub) == Find(text, sub, 1) - 1

\* list.insert(i, x) for 0 <= i
insert(list, i, x) ==
    IF i >= Len(list) THEN Append(list, x)
    ELSE SubSeq(list, 1, i) \o <<x>> \o SubSeq(list, i + 1, Len(list))

\* the list left by list.pop(i), for 0 <= i < len(list)
pop(list, i) == SubSeq(list, 1, i) \o SubSeq(list, i + 2, Len(list))

\* the opaque body of a symmetrically encrypted message: one line of data and
\* one checksum line, from which only the passphrase recovers the text
SymData(text, pass) ==
    <<replace(text, NL, <<"|">>), <<"=">> \o replace(pass, NL, <<"|">>)>>

\* str(sym_encrypt(text, passphrase)): the armored block; old PGPy versions
\* put a Version line after the armor header line
sym_encrypt(text, pass, version) ==
    join(NL, <<BEGIN_PGP_MESSAGE>> \o
             (IF version THEN <<VERSION_PGPY \o <<"0">> >> ELSE <<>>) \o
             <<<<>>>> \o SymData(text, pass) \o <<END_PGP_MESSAGE>>)

\* the armored blocks sym_encrypt can produce for a text and a passphrase
IsSymEncrypted(block, text, pass) ==
    \E version \in BOOLEAN : block = sym_encrypt(text, pass, version)

\* what the body of an armored block decrypts to under a passphrase
SymBody(block, pass) ==
    LET lines == split(block, NL)
        n == Len(lines)
    IN  IF n < 4 \/ lines[1] # BEGIN_PGP_MESSAGE \/ lines[n] # END_PGP_MESSAGE
           \/ lines[n - 1] # <<"=">> \o replace(pass, NL, <<"|">>)
        THEN Raise("PGPError")
        ELSE Ok(replace(lines[n - 2], <<"|">>, NL))

\* sym_decrypt(block, passphrase).message: a block that sym_encrypt produced
\* decrypts to its text under the same passphrase; a block whose armor was
\* altered decrypts or is rejected, as the reader of the armor decides (lenient)
sym_decrypt(block, pass, lenient) ==
    LET body == SymBody(block, pass)
    IN  IF IsRaise(body) THEN body
        ELSE IF IsSymEncrypted(block, body.value, pass) \/ lenient THEN body
        ELSE Raise("PGPError")

\* str(_get_seckey_from_addr(profile, sender)); str(None) for an unknown sender
seckey_str(prof, sender) ==
    IF sender \in DOMAIN prof.accounts THEN prof.accounts[sender].sec
    ELSE <<"N", "o", "n", "e">>

gen_ac_setup_ct(sender, p, prof) ==
    LET seckey_list == insert(split(seckey_str(prof, sender), NL), 1,
                              AC_PREFER_ENCRYPT_HEADER \o Chars(p))
    IN  IF p = None THEN Raise("TypeError")
        ELSE IF Len(seckey_list) < 3 THEN Raise("IndexError")
        ELSE IF startswith(seckey_list[3], VERSION_PGPY)
             THEN Ok(join(NL, pop(seckey_list, 2)))
        ELSE Ok(join(NL, seckey_list))

gen_ac_setup_payload(ac_setup_ct, pass, version) ==
    LET ctlist == split(sym_encrypt(ac_setup_ct, pass, version), NL)
        ctlist1 == IF startswith(ctlist[2], VERSION_PGPY) THEN pop(ctlist, 1)
                   ELSE ctlist
        ctlist2 == insert(ctlist1, 1,
                          AC_PASSPHRASE_FORMAT \o NL \o AC_PASSPHRASE_BEGIN \o
                          PySlice(pass, 0, AC_PASSPHRASE_BEGIN_LEN))
    IN  AC_SETUP_INTRO \o NL \o join(NL, ctlist2)

\* MIMEMultipartACSetup(ac_setup_payload)
MIMEMultipartACSetup(ac_setup_payload) == NewMessage("setup", ac_setup_payload)

\* gen_ac_setup_email with a passphrase given and the other arguments at their
\* defaults: _extra = {Autocrypt-Setup-Message: v1}, recipients = [sender]
gen_ac_setup_email(sender, p, prof, pass, version) ==
    LET ac_setup_ct == gen_ac_setup_ct(sender, p, prof)
    IN  IF IsRaise(ac_setup_ct) THEN ac_setup_ct
        ELSE Ok(add_header(
                    add_headers(
                        MIMEMultipartACSetup(
                            gen_ac_setup_payload(ac_setup_ct.value, pass, version)),
                        sender, <<sender>>, AC_SETUP_SUBJECT),
                    AC_SETUP_MSG, LEVEL_NUMBER))

\* parse_ac_setup_payload(payload): the text from the armor header line to the
\* armor tail line
parse_ac_setup_payload(attachment_text) ==
    PySlice(attachment_text, find(attachment_text, BEGIN_PGP_MESSAGE),
            find(attachment_text, END_PGP_MESSAGE)) \o END_PGP_MESSAGE

\* a call of logger.error
LogError(what) == [fn |-> "logger.error", what |-> what]

\* the outcome of a call: what it returns or raises and the collaborator calls
\* and error logs it made
Outcome(r, prof, cs) == [ret |-> r, profile |-> prof, calls |-> cs]

parse_ac_setup_ct(ct, pass, prof, lenient) ==
    LET ctlist == split(ct, NL)
        pass_format == ctlist[3]
        ctlist1 == pop(ctlist, 2)
        pass_begins == ctlist1[3]
        ctlist2 == pop(ctlist1, 2)
        log1 == IF pass_format # AC_PASSPHRASE_FORMAT
                THEN <<LogError("Passphrase format not found.")>> ELSE <<>>
        log2 == IF PySlice(pass_begins, 0, Len(AC_PASSPHRASE_BEGIN))
                   # AC_PASSPHRASE_BEGIN
                THEN <<LogError("Passphrase-Begin not found.")>> ELSE <<>>
        log3 == IF PySlice(pass_begins, AC_PASSPHRASE_BEGIN_LEN, Len(pass_begins))
                   # PySlice(pass, 0, AC_PASSPHRASE_BEGIN_LEN)
                THEN <<LogError("The passphrase is invalid.")>> ELSE <<>>
        block == join(NL, ctlist2)
    IN  IF Len(ctlist) < 3 THEN Outcome(Raise("IndexError"), prof, <<>>)
        ELSE IF Len(ctlist1) < 3 THEN Outcome(Raise("IndexError"), prof, log1)
        ELSE Outcome(sym_decrypt(block, pass, lenient), prof,
                     log1 \o log2 \o log3 \o
                     <<[fn |-> "sym_decrypt", block |-> block, pass |-> pass]>>)

parse_ac_setup_email(m, prof, pass, lenient) ==
    LET log0 == IF get_all(m, AC_SETUP_MSG) = <<>>
                   \/ get_all(m, AC_SETUP_MSG)[1] # LEVEL_NUMBER
                THEN <<LogError("This is not an Autocrypt Setup Message v1")>>
                ELSE <<>>
        r == parse_ac_setup_ct(parse_ac_setup_payload(m.payload), pass, prof,
                               lenient)
    IN  Outcome(r.ret, prof, log0 \o r.calls)


-----------------------------------------------------------------------------
(* Decode paths *)

\* a call of new_peer; p holds the prefer-encrypt argument when one is given
Upsert(a, k, p) == [fn |-> "new_peer", addr |-> a, keydata |-> k, pe |-> p]

\* get_seckey_from_msg: the first To address with a secret key, <<>> for None
get_seckey_from_msg(m, prof) ==
    LET to == split(get_all(m, "To")[1], <<",", " ">>)
        own == SelectSeq(to, LAMBDA r : HasSeckey(prof, r))
    IN  IF own = <<>> THEN <<>> ELSE <<own[1]>>

\* decrypt_email(msg, profile, key): the decrypted text, here the message that
\* parser.parsestr makes of it
decrypt_email(m, prof, key) ==
    IF m.content # "encrypted" THEN Outcome(Raise("AssertionError"), prof, <<>>)
    ELSE Outcome(decrypt(prof, m.payload, key), prof, <<[fn |-> "decrypt"]>>)

\* the lookups ac_headervaluedict['addr'], ['keydata'], ['prefer-encrypt']
HasPeerFields(d) == {ADDR, KEYDATA, PE} \subseteq DOMAIN d

\* the calls cs, followed by what the outcome o did
After(cs, o) == [o EXCEPT !.calls = cs \o @]

\* key = get_seckey_from_msg(msg, profile); pt = decrypt_email(msg, profile, key)
DecryptWithOwnKey(m, prof) ==
    decrypt_email(m, prof, get_seckey_from_msg(m, prof))

\* parse_ac_email from its new_peer call on, ac_headervaluedict being d
ImportAndDecrypt(m, prof, d) ==
    IF ~HasPeerFields(d) THEN Outcome(Raise("KeyError"), prof, <<>>)
    ELSE After(<<Upsert(d[ADDR], d[KEYDATA], <<d[PE]>>)>>,
               DecryptWithOwnKey(
                   m, new_peer(prof, d[ADDR], d[KEYDATA], <<d[PE]>>)))

\* parse_ac_email once the headers are parsed: with any number of headers but
\* one, ac_headervaluedict is unbound when new_peer is called
AcEmailFrom(m, prof, ac_headers) ==
    IF Len(ac_headers) # 1
    THEN Outcome(Raise("UnboundLocalError"), prof,
                 <<LogError("There is more than one Autocrypt header.")>>)
    ELSE ImportAndDecrypt(m, prof, ac_headers[1])

parse_ac_email(m, prof) == AcEmailFrom(m, prof, parse_ac_headers(m))

\* [v.strip() for k, v in msg.items() if k == AC_GOSSIP]
parse_gossip_list_from_msg(m) ==
    LET vs == get_all(m, AC_GOSSIP)
    IN  [n \in 1..Len(vs) |-> strip(vs[n])]

\* store_keys_from_gossiplist from the i-th gossip value on
RECURSIVE StoreKeysFrom(_, _, _, _)
StoreKeysFrom(gossip_list, prof, cs, i) ==
    IF i > Len(gossip_list) THEN Outcome(ReturnsNone, prof, cs)
    ELSE LET g_dict == parse_header_value(gossip_list[i])
         IN  IF ~({ADDR, KEYDATA} \subseteq DOMAIN g_dict)
             THEN Outcome(Raise("KeyError"), prof, cs)
             ELSE StoreKeysFrom(
                      gossip_list,
                      new_peer(prof, g_dict[ADDR], g_dict[KEYDATA], <<>>),
                      Append(cs, Upsert(g_dict[ADDR], g_dict[KEYDATA], <<>>)), i + 1)

store_keys_from_gossiplist(gossip_list, prof) ==
    StoreKeysFrom(gossip_list, prof, <<>>, 1)

\* what parse_gossip_ct returns or raises after decrypt_email returned r and
\* store_keys_from_gossiplist did s
GossipStored(r, s) ==
    Outcome(IF IsRaise(s.ret) THEN s.ret ELSE r.ret, s.profile,
            r.calls \o s.calls)

\* parse_gossip_ct after decrypt_email returned or raised r
GossipCtFrom(r, prof) ==
    IF IsRaise(r.ret) THEN r
    ELSE GossipStored(
             r, store_keys_from_gossiplist(
                    parse_gossip_list_from_msg(r.ret.value), prof))

\* parse_gossip_ct; its pt.replace looks for a text with '|' in it that no
\* serialized message holds, and changes nothing
parse_gossip_ct(m, prof, key) == GossipCtFrom(decrypt_email(m, prof, key), prof)

\* key = get_seckey_from_msg(msg, profile); pt = parse_gossip_ct(msg, profile, key)
GossipWithOwnKey(m, prof) ==
    parse_gossip_ct(m, prof, get_seckey_from_msg(m, prof))

\* parse_gossip_email from its new_peer call on, ac_headervaluedict being d
ImportAndParseGossip(m, prof, d) ==
    IF ~HasPeerFields(d) THEN Outcome(Raise("KeyError"), prof, <<>>)
    ELSE After(<<Upsert(d[ADDR], d[KEYDATA], <<d[PE]>>)>>,
               GossipWithOwnKey(
                   m, new_peer(prof, d[ADDR], d[KEYDATA], <<d[PE]>>)))

\* parse_gossip_email once the headers are parsed: the first header is taken,
\* however many there are
GossipEmailFrom(m, prof, ac_headers) ==
    IF Len(ac_headers) = 0 THEN Outcome(Raise("IndexError"), prof, <<>>)
    ELSE ImportAndParseGossip(m, prof, ac_headers[1])

parse_gossip_email(m, prof) == GossipEmailFrom(m, prof, parse_ac_headers(m))

\* msg.get(AC_SETUP_MSG) == LEVEL_NUMBER
IsSetupV1(m) ==
    has_header(m, AC_SETUP_MSG) /\ get_all(m, AC_SETUP_MSG)[1] = LEVEL_NUMBER

\* parse_email after parse_ac_email returned or raised r
AfterAcEmail(m, r) ==
    IF IsRaise(r.ret) THEN r
    ELSE IF has_header(r.ret.value, AC_GOSSIP)
         THEN After(r.calls, parse_gossip_email(m, r.profile))
    ELSE r

\* parse_email; a message with none of the three markers falls off the end of
\* the function
parse_email(m, prof, pass, lenient) ==
    IF IsSetupV1(m) THEN parse_ac_setup_email(m, prof, pass, lenient)
    ELSE IF has_header(m, AC) THEN AfterAcEmail(m, parse_ac_email(m, prof))
    ELSE IF has_header(m, AC_GOSSIP) THEN parse_gossip_email(m, prof)
    ELSE Outcome(ReturnsNone, prof, <<>>)

-----------------------------------------------------------------------------
(* Gossip encoding *)

gen_gossip_headervalues(rcpts, prof) ==
    [n \in 1..Len(rcpts) |->
        gen_gossip_headervalue(rcpts[n],
                               get_peer_keydata(prof, rcpts[n]))]

RECURSIVE AddGossipFrom(_, _, _)
AddGossipFrom(m, gossip_headers, i) ==
    IF i > Len(gossip_headers) THEN m
    ELSE AddGossipFrom(add_header(m, AC_GOSSIP, gossip_headers[i]),
                       gossip_headers, i + 1)

gen_gossip_pt_email(rcpts, body, prof) ==
    AddGossipFrom(NewMessage("plain", body),
                  gen_gossip_headervalues(rcpts, prof), 1)

gen_gossip_email(sender, rcpts, prof, subject, body, p) ==
    IF sender \notin DOMAIN prof.accounts
       \/ \E n \in 1..Len(rcpts) : rcpts[n] \notin DOMAIN prof.peers
    THEN Raise("KeyError")
    ELSE add_ac_headers(
             add_headers(
                 gen_encrypted_email(
                     sign_encrypt(prof, gen_gossip_pt_email(rcpts, body, prof),
                                  sender, rcpts)),
                 sender, rcpts, subject),
             sender, get_own_public_keydata(prof, sender), p)

-----------------------------------------------------------------------------
(* Inputs *)

ADDR_A == <<"a", "@", "x">>
ADDR_B == <<"b", "@", "y">>
ADDR_C == <<"c", "@", "z">>

Subject == <<"s">>
Body == <<"h", "i">>

\* characters of base64 keydata
KeyAlphabet == <<"A", "b", "0", "+", "/", "=">>

\* keydata of n characters; seed varies its content
PatternKey(n, seed) ==
    [i \in 1..n |-> KeyAlphabet[((i * (seed + 1) + seed) % Len(KeyAlphabet)) + 1]]

\* largest number of full lines of the text given to wrap (1000+ characters)
MaxFolds == 14
\* largest number of full lines of the keydata of an e-mail's Autocrypt header
MaxHeaderFolds == 2
\* number of different contents tried for each keydata length
MaxSeeds == 2

\* the lengths around every multiple of the line length: 0, 1, 75, 76, 77, ...
KeyLens(folds) ==
    {n \in 0..(folds * MaxLineLen + 1) :
        \E f \in 0..folds : n \in {f * MaxLineLen - 1, f * MaxLineLen,
                                   f * MaxLineLen + 1}}

LongKeys(folds) ==
    {PatternKey(n, seed) : n \in KeyLens(folds), seed \in 0..(MaxSeeds - 1)}

\* pieces that short keydata is put together from
KeyPieces == {<<"A">>, <<"=">>, <<"b", "/">>, S_keydata \o <<"=">>}

\* largest number of pieces of a short keydata
MaxPieces == 2

RECURSIVE PieceKeys(_)
PieceKeys(n) ==
    IF n = 0 THEN {<<>>}
    ELSE PieceKeys(n - 1) \cup {k \o q : k \in PieceKeys(n - 1), q \in KeyPieces}

ShortKeys == PieceKeys(MaxPieces)

\* a text that wrap refuses
NewlineKey == <<"A", "\n", "b">>

\* continuation markers
WrapStrs == {<<" ">>, <<"\n", " ">>, <<"\n">>}

EmptyProfile == [accounts |-> <<>>, peers |-> <<>>]
NoMessage == NewMessage("none", <<>>)

-----------------------------------------------------------------------------
(* Encoding and decoding of header values: the calls a client makes *)

\* gen_ac_email(profile, sender, recipients, subject, body, pe)
gen_ac_email(prof, sender, rcpts, subject, body, p) ==
    IF sender \notin DOMAIN prof.accounts
       \/ \E n \in 1..Len(rcpts) : rcpts[n] \notin DOMAIN prof.peers
    THEN Raise("AssertionError")
    ELSE add_ac_headers(
             add_headers(
                 gen_encrypted_email(
                     sign_encrypt(prof, NewMessage("plain", body), sender, rcpts)),
                 sender, rcpts, subject),
             sender, get_own_public_keydata(prof, sender), p)

\* the profile of a sender with one account and the given peers
SenderProfile(a, k, sec, peers) ==
    [accounts |-> (a :> [pub |-> k, sec |-> sec]), peers |-> peers]

InitCodec ==
    /\ pc = "start"
    /\ op \in {"gen_ac_headervaluestr", "wrap", "gen_ac_email"}
    /\ decoder = "none"
    /\ addr \in IF op = "wrap" THEN {<<>>} ELSE {ADDR_A, ADDR_B}
    /\ keydata \in CASE op = "wrap" -> LongKeys(MaxFolds) \cup {NewlineKey}
                     [] op = "gen_ac_email" -> LongKeys(MaxHeaderFolds)
                     [] OTHER -> ShortKeys
    /\ pe \in IF op = "wrap" THEN {None} ELSE PE_HEADER_TYPES
    /\ wrapstr \in IF op = "wrap" THEN WrapStrs ELSE {<<>>}
    /\ recipients = IF op = "gen_ac_email" THEN <<ADDR_C>> ELSE <<>>
    /\ passphrase = <<>>
    /\ pgpy_version = FALSE
    /\ sender_profile =
         IF op = "gen_ac_email"
         THEN SenderProfile(addr, keydata, <<>>,
                            (ADDR_C :> PeerRecord(<<"A">>, <<>>)))
         ELSE EmptyProfile
    /\ typed_passphrase = <<>>
    /\ headervaluestr = <<>>
    /\ headervaluedict = <<>>
    /\ msg = NoMessage
    /\ profile = EmptyProfile
    /\ calls = <<>>
    /\ ret = ReturnsNone

\* headervaluestr = gen_ac_headervaluestr(addr, keydata, pe)
GenHeaderValue ==
    /\ pc = "start" /\ op = "gen_ac_headervaluestr"
    /\ LET r == gen_ac_headervaluestr(addr, keydata, pe)
       IN  IF IsRaise(r)
           THEN /\ ret' = r
                /\ pc' = "raised"
                /\ UNCHANGED headervaluestr
           ELSE /\ headervaluestr' = r.value
                /\ pc' = "generated"
                /\ UNCHANGED ret
    /\ UNCHANGED <<inputs, headervaluedict, msg, profile, calls>>

\* headervaluedict = parse_header_value(headervaluestr)
ParseHeaderValue ==
    /\ pc = "generated"
    /\ headervaluedict' = parse_header_value(headervaluestr)
    /\ pc' = "parsed"
    /\ UNCHANGED <<inputs, headervaluestr, msg, profile, calls, ret>>

\* headervaluestr = wrap(keydata, 76, wrapstr)
Wrap ==
    /\ pc = "start" /\ op = "wrap"
    /\ IF ~WrapAsserts(keydata)
       THEN /\ ret' = Raise("AssertionError")
            /\ pc' = "raised"
            /\ UNCHANGED headervaluestr
       ELSE /\ headervaluestr' = wrap(keydata, MaxLineLen, wrapstr)
            /\ pc' = "wrapped"
            /\ UNCHANGED ret
    /\ UNCHANGED <<inputs, headervaluedict, msg, profile, calls>>

\* ret = unwrap(headervaluestr, wrapstr)
Unwrap ==
    /\ pc = "wrapped"
    /\ ret' = Ok(unwrap(headervaluestr, wrapstr))
    /\ pc' = "unwrapped"
    /\ UNCHANGED <<inputs, headervaluestr, headervaluedict, msg, profile, calls>>

\* msg = gen_ac_email(profile, addr, recipients, subject, body, pe)
GenAcEmail ==
    /\ pc = "start" /\ op = "gen_ac_email"
    /\ LET r == gen_ac_email(sender_profile, addr, recipients, Subject, Body, pe)
       IN  IF IsRaise(r)
           THEN /\ ret' = r
                /\ pc' = "raised"
                /\ UNCHANGED msg
           ELSE /\ msg' = r.value
                /\ pc' = "sent"
                /\ UNCHANGED ret
    /\ UNCHANGED <<inputs, headervaluestr, headervaluedict, profile, calls>>

\* headervaluedict = parse_ac_headers(msg)
ParseAcHeaders ==
    /\ pc = "sent"
    /\ headervaluedict' = parse_ac_headers(msg)
    /\ pc' = "headers_parsed"
    /\ UNCHANGED <<inputs, headervaluestr, msg, profile, calls, ret>>

NextCodec ==
    \/ GenHeaderValue
    \/ ParseHeaderValue
    \/ Wrap
    \/ Unwrap
    \/ GenAcEmail
    \/ ParseAcHeaders

Spec == InitCodec /\ [][NextCodec]_vars

-----------------------------------------------------------------------------
(* Properties of the header codec *)

\* the prefer-encrypt field of a parsed header value is the one given:
\* mutual when mutual was given, absent when no preference was given
PeFieldIs(d, p) ==
    IF p = MUTUAL THEN PE \in DOMAIN d /\ d[PE] = Chars(p)
    ELSE PE \notin DOMAIN d

\* the parsed header value d holds exactly address a, keydata k and preference p
HeaderValueIs(d, a, k, p) ==
    /\ ADDR \in DOMAIN d /\ d[ADDR] = a
    /\ KEYDATA \in DOMAIN d /\ d[KEYDATA] = k
    /\ PeFieldIs(d, p)

\* C1: parsing the header value generated from an address, a non-empty keydata
\* (which may contain '=') and an allowed preference gives back exactly that
\* address, keydata and preference, the field being absent when no preference
\* is set.
C1_HeaderValueRoundTrip ==
    pc = "parsed" => HeaderValueIs(headervaluedict, addr, keydata, pe)

\* the 1-based positions at which wrapstr occurs in the wrapped text
WrapStrPositions ==
    {i \in 1..Len(headervaluestr) : MatchAt(headervaluestr, wrapstr, i)}

\* number of lines the text is folded into
NumLines == (Len(keydata) + MaxLineLen - 1) \div MaxLineLen

\* the n-th segment of the wrapped text: what follows the n-th continuation
Segment(n) ==
    Slice(headervaluestr,
          (n - 1) * (MaxLineLen + Len(wrapstr)) + Len(wrapstr),
          n * (MaxLineLen + Len(wrapstr)))

\* C2: unwrap(wrap(k, 76, sep), sep) = k for newline-free keydata k, and wrap
\* puts the continuation exactly at the 76-character boundaries of k: the
\* wrapped text is a continuation followed by 76 characters of k, repeated,
\* only the last segment being shorter, and sep occurs nowhere else.
C2_WrapUnwrapRoundTrip ==
    /\ pc = "unwrapped" => ret = Ok(keydata)
    /\ pc \in {"wrapped", "unwrapped"} =>
        /\ WrapStrPositions =
             {(n - 1) * (MaxLineLen + Len(wrapstr)) + 1 :
                 n \in 1..(IF NumLines = 0 THEN 1 ELSE NumLines)}
        /\ \A n \in 1..NumLines :
             /\ Segment(n) = Slice(keydata, (n - 1) * MaxLineLen, n * MaxLineLen)
             /\ n < NumLines => Len(Segment(n)) = MaxLineLen
        /\ Len(headervaluestr) =
             Len(keydata) + Len(wrapstr) * (IF NumLines = 0 THEN 1 ELSE NumLines)

\* a text of more than 1000 characters was folded into more than two lines and
\* unfolded again
C2_Witness ==
    /\ pc = "unwrapped"
    /\ Len(keydata) > 1000
    /\ Len(keydata) % MaxLineLen = 1
    /\ Cardinality(WrapStrPositions) = NumLines
    /\ ret = Ok(keydata)

\* C10: the message gen_ac_email produces has exactly one Autocrypt header, and
\* parse_ac_headers gives addr equal to the sender, prefer-encrypt equal to the
\* given preference and keydata equal to the sender's public keydata character
\* for character, also for keydata longer than 76 characters.
C10_AcEmailHeaderCarriesKey ==
    pc = "headers_parsed" =>
        /\ Len(headervaluedict) = 1
        /\ HeaderValueIs(headervaluedict[1], addr,
                         get_own_public_keydata(sender_profile, addr), pe)


-----------------------------------------------------------------------------
(* Mail: the encoders of a sending client and the decoders of a receiving one *)

KEY_A == <<"A", "b", "0", "=">>
KEY_B == <<"b", "/", "+", "A">>
KEY_C == <<"0", "0", "=", "=">>

BEGIN_PGP_PRIVATE_KEY == <<"-", "-", "-", "-", "-", "B", "E", "G", "I", "N",
    " ", "P", "G", "P", " ", "P", "R", "I", "V", "A", "T", "E", " ", "K", "E",
    "Y", " ", "B", "L", "O", "C", "K", "-", "-", "-", "-", "-">>
END_PGP_PRIVATE_KEY == <<"-", "-", "-", "-", "-", "E", "N", "D", " ", "P", "G",
    "P", " ", "P", "R", "I", "V", "A", "T", "E", " ", "K", "E", "Y", " ", "B",
    "L", "O", "C", "K", "-", "-", "-", "-", "-">>

\* str(seckey): the armored secret key of an account
SecKey(version) ==
    join(NL, <<BEGIN_PGP_PRIVATE_KEY>> \o
             (IF version THEN <<VERSION_PGPY \o <<"0">> >> ELSE <<>>) \o
             <<<<>>, <<"x", "c", "L", "Y">>, <<"=", "a", "b">>,
               END_PGP_PRIVATE_KEY>>)

\* passphrases: P2 differs from P1 in its first two characters, P3 only later
P1 == <<"1", "2", "3", "4", "-", "5", "6", "7", "8", "\n", "9", "0", "1",
    "2">>
P2 == <<"1", "3", "3", "4", "-", "5", "6", "7", "8", "\n", "9", "0", "1",
    "2">>
P3 == <<"1", "2", "3", "5", "-", "5", "6", "7", "8", "\n", "9", "0", "1",
    "2">>
Passphrases == {P1, P2, P3}

\* sequences over S of at most n elements
RECURSIVE SeqsUpTo(_, _)
SeqsUpTo(S, n) ==
    IF n = 0 THEN {<<>>}
    ELSE SeqsUpTo(S, n - 1) \cup
         {Append(q, x) : q \in {t \in SeqsUpTo(S, n - 1) : Len(t) = n - 1}, x \in S}

\* largest number of Autocrypt headers of a received message
MaxAcHeaders == 2
\* largest number of Autocrypt-Gossip headers inside a received message
MaxGossip == 2
\* largest number of recipients of a gossip message
MaxRecipients == 2

\* the Autocrypt header value that add_ac_headers attaches
AcValue(a, k, p) == header_wrap(gen_ac_headervaluestr(a, k, p).value).value

AcValues == {AcValue(ADDR_A, KEY_A, MUTUAL), AcValue(ADDR_A, KEY_A, None),
             AcValue(ADDR_C, KEY_C, MUTUAL)}

GossipValues == {gen_gossip_headervalue(ADDR_B, KEY_B),
                 gen_gossip_headervalue(ADDR_C, KEY_C)}

RECURSIVE AddHeadersFrom(_, _, _, _)
AddHeadersFrom(m, name, values, i) ==
    IF i > Len(values) THEN m
    ELSE AddHeadersFrom(add_header(m, name, values[i]), name, values, i + 1)

\* a message from a@x as it arrives: its Autocrypt headers, its own gossip
\* headers, and either an encrypted body whose plaintext carries the inner
\* gossip headers or a plain body
Inbound(acs, outer, inner, content, to) ==
    AddHeadersFrom(
        AddHeadersFrom(
            add_headers(
                NewMessage(content,
                           IF content = "encrypted"
                           THEN sign_encrypt(EmptyProfile,
                                    AddHeadersFrom(NewMessage("plain", Body),
                                                   AC_GOSSIP, inner, 1),
                                    ADDR_A, to)
                           ELSE Body),
                ADDR_A, to, Subject),
            AC, acs, 1),
        AC_GOSSIP, outer, 1)

InboundMessages ==
    {Inbound(acs, outer, inner, "encrypted", to) :
        acs \in SeqsUpTo(AcValues, MaxAcHeaders),
        outer \in SeqsUpTo({gen_gossip_headervalue(ADDR_C, KEY_C)}, 1),
        inner \in SeqsUpTo(GossipValues, MaxGossip),
        to \in {<<ADDR_B>>, <<ADDR_C, ADDR_B>>}}
    \cup
    {Inbound(acs, outer, <<>>, "plain", <<ADDR_B>>) :
        acs \in SeqsUpTo(AcValues, 1),
        outer \in SeqsUpTo({gen_gossip_headervalue(ADDR_C, KEY_C)}, 1)}

\* the profile of the receiving mailbox: one account, no peers yet
Mailbox(a) ==
    [accounts |-> (a :> [pub |-> KEY_B, sec |-> SecKey(FALSE)]), peers |-> <<>>]

\* a setup message as it arrives: built by gen_ac_setup_email and then, on its
\* way, given another marker or another Passphrase-Format line
SetupInbound(marker, format, pass) ==
    LET m == gen_ac_setup_email(
                 ADDR_A, MUTUAL,
                 SenderProfile(ADDR_A, KEY_A, SecKey(FALSE), <<>>), pass,
                 FALSE).value
        hs == SelectSeq(m.headers, LAMBDA h : h.name # AC_SETUP_MSG)
    IN  AddHeadersFrom(
            [m EXCEPT !.headers = hs,
                      !.payload = replace(@, AC_PASSPHRASE_FORMAT, format)],
            AC_SETUP_MSG, marker, 1)

OTHER_FORMAT == <<"P", "a", "s", "s", "p", "h", "r", "a", "s", "e", "-", "F",
    "o", "r", "m", "a", "t", ":", " ", "o", "t", "h", "e", "r">>

SetupInboundMessages ==
    {SetupInbound(marker, format, P1) :
        marker \in {<<>>, <<LEVEL_NUMBER>>, << <<"v", "2">> >>},
        format \in {AC_PASSPHRASE_FORMAT, OTHER_FORMAT}}

NoCodec ==
    /\ keydata = <<>>
    /\ wrapstr = <<>>
    /\ headervaluestr = <<>>
    /\ headervaluedict = <<>>
    /\ calls = <<>>
    /\ ret = ReturnsNone

\* a message from another client arrives at the mailbox of b@y
InitInbound ==
    /\ pc = "delivered"
    /\ op = "none"
    /\ \/ /\ decoder \in {"parse_email", "parse_ac_email", "parse_gossip_email"}
          /\ msg \in InboundMessages
          /\ typed_passphrase = <<>>
          /\ profile = Mailbox(ADDR_B)
       \/ /\ decoder \in {"parse_email", "parse_ac_setup_email"}
          /\ msg \in SetupInboundMessages
          /\ typed_passphrase \in Passphrases
          /\ profile = Mailbox(ADDR_A)
    /\ addr = ADDR_A
    /\ pe = None
    /\ recipients = <<>>
    /\ passphrase = <<>>
    /\ pgpy_version = FALSE
    /\ sender_profile = EmptyProfile
    /\ NoCodec

\* a@x is about to send a gossip message to some of its peers, one of which
\* will decode it
InitGossip ==
    /\ pc = "start"
    /\ op = "gen_gossip_email"
    /\ decoder = "parse_email"
    /\ addr = ADDR_A
    /\ pe \in PE_HEADER_TYPES
    /\ recipients \in SeqsUpTo({ADDR_B, ADDR_C}, MaxRecipients) \ {<<>>}
    /\ passphrase = <<>>
    /\ pgpy_version = FALSE
    /\ sender_profile =
         SenderProfile(ADDR_A, KEY_A, SecKey(FALSE),
                       (ADDR_B :> PeerRecord(KEY_B, <<>>)) @@
                       (ADDR_C :> PeerRecord(KEY_C, <<S_mutual>>)))
    /\ typed_passphrase = <<>>
    /\ msg = NoMessage
    /\ \E n \in 1..Len(recipients) : profile = Mailbox(recipients[n])
    /\ NoCodec

\* a@x is about to send itself a setup message, to be decoded with the
\* passphrase its user types
InitSetup ==
    /\ pc = "start"
    /\ op = "gen_ac_setup_email"
    /\ decoder \in {"parse_email", "parse_ac_setup_email"}
    /\ addr = ADDR_A
    /\ pe \in PE_HEADER_TYPES
    /\ recipients = <<ADDR_A>>
    /\ passphrase \in Passphrases
    /\ pgpy_version \in BOOLEAN
    /\ sender_profile = SenderProfile(ADDR_A, KEY_A, SecKey(pgpy_version), <<>>)
    /\ typed_passphrase \in Passphrases
    /\ msg = NoMessage
    /\ profile = Mailbox(ADDR_A)
    /\ NoCodec

InitMail == InitInbound \/ InitGossip \/ InitSetup

\* the sending client built msg, or its call raised
Sent(r) ==
    /\ IF IsRaise(r)
       THEN /\ ret' = r
            /\ pc' = "raised"
            /\ UNCHANGED msg
       ELSE /\ msg' = r.value
            /\ pc' = "delivered"
            /\ UNCHANGED ret
    /\ UNCHANGED <<inputs, headervaluestr, headervaluedict, profile, calls>>

\* msg = gen_gossip_email(addr, recipients, profile, subject, body, pe)
GenGossipEmail ==
    /\ pc = "start" /\ op = "gen_gossip_email"
    /\ Sent(gen_gossip_email(addr, recipients, sender_profile, Subject, Body, pe))

\* msg = gen_ac_setup_email(addr, pe, profile, passphrase=passphrase)
GenAcSetupEmail ==
    /\ pc = "start" /\ op = "gen_ac_setup_email"
    /\ Sent(gen_ac_setup_email(addr, pe, sender_profile, passphrase,
                               pgpy_version))

\* the receiving client's call ended
Decoded(o) ==
    /\ ret' = o.ret
    /\ profile' = o.profile
    /\ calls' = o.calls
    /\ pc' = "done"
    /\ UNCHANGED <<inputs, headervaluestr, headervaluedict, msg>>

\* ret = parse_email(msg, profile, typed_passphrase)
ParseEmail ==
    /\ pc = "delivered" /\ decoder = "parse_email"
    /\ \E lenient \in BOOLEAN :
          Decoded(parse_email(msg, profile, typed_passphrase, lenient))

\* ret = parse_ac_email(msg, profile)
ParseAcEmail ==
    /\ pc = "delivered" /\ decoder = "parse_ac_email"
    /\ Decoded(parse_ac_email(msg, profile))

\* ret = parse_gossip_email(msg, profile)
ParseGossipEmail ==
    /\ pc = "delivered" /\ decoder = "parse_gossip_email"
    /\ Decoded(parse_gossip_email(msg, profile))

\* ret = parse_ac_setup_email(msg, profile, typed_passphrase)
ParseAcSetupEmail ==
    /\ pc = "delivered" /\ decoder = "parse_ac_setup_email"
    /\ \E lenient \in BOOLEAN :
          Decoded(parse_ac_setup_email(msg, profile, typed_passphrase, lenient))

NextMail ==
    \/ GenGossipEmail
    \/ GenAcSetupEmail
    \/ ParseEmail
    \/ ParseAcEmail
    \/ ParseGossipEmail
    \/ ParseAcSetupEmail

SpecMail == InitMail /\ [][NextMail]_vars

-----------------------------------------------------------------------------
(* Properties of the decode paths *)

\* the calls of collaborator fn that the decoder made, in order
CallsOf(fn) == SelectSeq(calls, LAMBDA c : c.fn = fn)

\* the decoders of Autocrypt and gossip messages
MailDecoders == {"parse_email", "parse_ac_email", "parse_gossip_email"}

\* C3: decoding a message with more than one Autocrypt header ends in a failure,
\* with no peer upserted and the body not decrypted.
C3_AmbiguousSenderKeyRejected ==
    (pc = "done" /\ decoder \in MailDecoders /\ Len(get_all(msg, AC)) > 1) =>
        /\ IsRaise(ret)
        /\ CallsOf("new_peer") = <<>>
        /\ CallsOf("decrypt") = <<>>

\* the only Autocrypt header of the message, parsed
SenderHeader == parse_ac_headers(msg)[1]

\* the message has exactly one Autocrypt header, which holds addr and keydata,
\* and an encrypted body
HasOneSenderHeader ==
    /\ ~IsSetupV1(msg)
    /\ Len(get_all(msg, AC)) = 1
    /\ {ADDR, KEYDATA} \subseteq DOMAIN SenderHeader
    /\ msg.content = "encrypted"

\* C4: parse_email of a message with exactly one Autocrypt header that holds addr
\* and keydata, with or without prefer-encrypt, first upserts the sender with the
\* header's keydata and its preference (absent when the header has none) and
\* then returns the decrypted body.
C4_AutocryptDecodePath ==
    (pc = "done" /\ decoder = "parse_email" /\ HasOneSenderHeader) =>
        /\ ret = Ok(msg.payload.pt)
        /\ calls # <<>>
        /\ calls[1] = Upsert(SenderHeader[ADDR], SenderHeader[KEYDATA],
                             IF PE \in DOMAIN SenderHeader
                             THEN <<SenderHeader[PE]>> ELSE <<>>)
        /\ CallsOf("decrypt") # <<>>

\* the message has none of the three markers
IsPlainEmail ==
    ~IsSetupV1(msg) /\ ~has_header(msg, AC) /\ ~has_header(msg, AC_GOSSIP)

\* C5: parse_email of a message without Autocrypt, Autocrypt-Gossip and v1 setup
\* marker returns the message's plaintext unchanged, decrypts nothing and
\* upserts no peer.
C5_PlainEmailPath ==
    (pc = "done" /\ decoder = "parse_email" /\ IsPlainEmail) =>
        /\ ret = Ok(msg.payload)
        /\ CallsOf("decrypt") = <<>>
        /\ CallsOf("sym_decrypt") = <<>>
        /\ CallsOf("new_peer") = <<>>

\* the message has a gossip header and neither Autocrypt header nor v1 marker
IsGossipOnly ==
    ~IsSetupV1(msg) /\ ~has_header(msg, AC) /\ has_header(msg, AC_GOSSIP)

\* the gossip values that the encrypted part of the message carries, parsed
InnerGossip ==
    LET vs == parse_gossip_list_from_msg(msg.payload.pt)
    IN  [n \in 1..Len(vs) |-> parse_header_value(vs[n])]

\* C6: parse_email of a message with an Autocrypt-Gossip header, no Autocrypt
\* header and no v1 setup marker does not fail, and every gossip value of the
\* message is upserted into peer storage.
C6_GossipOnlyPath ==
    (pc = "done" /\ decoder = "parse_email" /\ IsGossipOnly) =>
        /\ ~IsRaise(ret)
        /\ msg.content = "encrypted" =>
             \A n \in 1..Len(InnerGossip) :
                 Upsert(InnerGossip[n][ADDR], InnerGossip[n][KEYDATA], <<>>)
                     \in {calls[i] : i \in 1..Len(calls)}

\* the lines of the armored part of a setup message
SetupLines == split(parse_ac_setup_payload(msg.payload), NL)

\* the Passphrase-Format line of the setup message: the line after the armor
\* header line
EmbeddedFormat == SetupLines[2]

\* the prefix that the setup message gives after Passphrase-Begin
EmbeddedPrefix ==
    PySlice(SetupLines[3], Len(AC_PASSPHRASE_BEGIN), Len(SetupLines[3]))

\* the first K characters of the passphrase given to the decoder
TypedPrefix == PySlice(typed_passphrase, 0, AC_PASSPHRASE_BEGIN_LEN)

\* a setup decoder has worked on a setup payload
SetupDecoded ==
    /\ pc = "done"
    /\ decoder \in {"parse_email", "parse_ac_setup_email"}
    /\ msg.content = "setup"

\* C7: sym_decrypt is invoked only if the marker is v1, the Passphrase-Format
\* line is the expected tag and the embedded prefix equals the first K
\* characters of the given passphrase; with another prefix the decode fails
\* before sym_decrypt is invoked.
C7_SetupValidationFailFast ==
    SetupDecoded =>
        /\ CallsOf("sym_decrypt") # <<>> =>
             /\ IsSetupV1(msg)
             /\ EmbeddedFormat = AC_PASSPHRASE_FORMAT
             /\ EmbeddedPrefix = TypedPrefix
        /\ EmbeddedPrefix # TypedPrefix =>
             /\ IsRaise(ret)
             /\ CallsOf("sym_decrypt") = <<>>

\* the secret-key armor with the directive, as gen_ac_setup_email encrypted it
SentSetupCt == gen_ac_setup_ct(addr, pe, sender_profile).value

\* the lines of text that start with the Autocrypt-Prefer-Encrypt directive
DirectiveLines(text) ==
    {n \in 1..Len(split(text, NL)) :
        startswith(split(text, NL)[n], AC_PREFER_ENCRYPT_HEADER)}

\* C8: parsing the message gen_ac_setup_email built, with the same passphrase,
\* logs no format or passphrase mismatch, hands sym_decrypt the armored block
\* sym_encrypt produced, and returns the secret-key armor with the directive
\* exactly once, as its second line.
C8_SetupRoundTrip ==
    (pc = "done" /\ op = "gen_ac_setup_email" /\ typed_passphrase = passphrase) =>
        /\ CallsOf("logger.error") = <<>>
        /\ Len(CallsOf("sym_decrypt")) = 1
        /\ IsSymEncrypted(CallsOf("sym_decrypt")[1].block, SentSetupCt,
                          passphrase)
        /\ ret = Ok(SentSetupCt)
        /\ DirectiveLines(SentSetupCt) = {2}

\* the gossip values of the inner message that gen_gossip_email encrypted
SentGossip == InnerGossip

\* the upserts that store_keys_from_gossiplist made: those without preference
GossipUpserts == SelectSeq(CallsOf("new_peer"), LAMBDA c : c.pe = <<>>)

\* C9: the inner message of gen_gossip_email has one Autocrypt-Gossip header per
\* recipient; after a recipient decoded the message its peer store holds, for
\* each recipient, the keydata the sender had for it, and the gossip import
\* upserted recipients only, never the sender.
C9_GossipPropagation ==
    op = "gen_gossip_email" =>
        /\ pc \in {"delivered", "done"} =>
             /\ Len(SentGossip) = Len(recipients)
             /\ \A n \in 1..Len(recipients) :
                    SentGossip[n][ADDR] = recipients[n]
        /\ pc = "done" =>
             /\ \A n \in 1..Len(recipients) :
                    /\ recipients[n] \in DOMAIN profile.peers
                    /\ profile.peers[recipients[n]][KEYDATA] =
                         get_peer_keydata(sender_profile, recipients[n])
             /\ \A i \in 1..Len(GossipUpserts) :
                    /\ GossipUpserts[i].addr # addr
                    /\ \E n \in 1..Len(recipients) :
                           GossipUpserts[i].addr = recipients[n]

-----------------------------------------------------------------------------
(* Raw header values: parse_header_value on what a message may carry *)

F_ADDR == S_addr \o <<"=">> \o ADDR_A
F_KEYDATA == S_keydata \o <<"=">> \o KEY_A
F_PE == S_pe \o <<"=">> \o S_mutual
\* a field with a name the parser does not know
F_UNKNOWN == <<"t", "y", "p", "e", "=", "1">>

RawFields == {F_ADDR, F_KEYDATA, F_PE, F_UNKNOWN}

\* the separators re.split accepts: "; " and its MIME-folded form
FieldSeparators == {<<";", " ">>, <<";", "\n", " ">>}

\* largest number of fields of a raw header value
MaxFields == 3

RawHeaderValues ==
    {join(sep, fs) : sep \in FieldSeparators, fs \in SeqsUpTo(RawFields, MaxFields)}

InitRaw ==
    /\ pc = "received"
    /\ op = "parse_header_value"
    /\ decoder = "none"
    /\ headervaluestr \in RawHeaderValues
    /\ addr = <<>>
    /\ keydata = <<>>
    /\ pe = None
    /\ wrapstr = <<>>
    /\ recipients = <<>>
    /\ passphrase = <<>>
    /\ pgpy_version = FALSE
    /\ sender_profile = EmptyProfile
    /\ typed_passphrase = <<>>
    /\ headervaluedict = <<>>
    /\ msg = NoMessage
    /\ profile = EmptyProfile
    /\ calls = <<>>
    /\ ret = ReturnsNone

\* ret = parse_header_value(headervaluestr)
ParseRawHeaderValue ==
    /\ pc = "received"
    /\ ret' = Ok(parse_header_value(headervaluestr))
    /\ headervaluedict' = parse_header_value(headervaluestr)
    /\ pc' = "returned"
    /\ UNCHANGED <<inputs, headervaluestr, msg, profile, calls>>

NextRaw ==
    \/ ParseRawHeaderValue

SpecRaw == InitRaw /\ [][NextRaw]_vars

\* the raw header value has no field with this name
LacksField(key) ==
    \A n \in 1..Len(re_split(headervaluestr)) :
        ~startswith(re_split(headervaluestr)[n], Chars(key) \o <<"=">>)

\* C11: parse_header_value fails for every raw header value without an addr
\* field or without a keydata field; for a value with both it returns them,
\* ignoring the fields with unrecognized names.
C11_GrammarErrorsSurfaced ==
    pc = "returned" =>
        /\ (LacksField(ADDR) \/ LacksField(KEYDATA)) => IsRaise(ret)
        /\ (~LacksField(ADDR) /\ ~LacksField(KEYDATA)) =>
             /\ ret = Ok(headervaluedict)
             /\ {ADDR, KEYDATA} \subseteq DOMAIN headervaluedict
             /\ DOMAIN headervaluedict \subseteq {ADDR, PE, KEYDATA}
             /\ headervaluedict[ADDR] = ADDR_A
             /\ headervaluedict[KEYDATA] = KEY_A

-----------------------------------------------------------------------------
(* Passphrase generation *)

\* total number of digits, number and width of the words, number of blocks
AC_PASSPHRASE_LEN == 36
AC_PASSPHRASE_NUM_WORDS == 9
AC_PASSPHRASE_WORD_LEN == 4
AC_PASSPHRASE_NUM_BLOCKS == 4

\* random.randrange(0, 9) draws from 0..8
RandRangeStop == 9

\* str(n) for a drawn number n
DigitStr(n) == <<"0", "1", "2", "3", "4", "5", "6", "7", "8", "9">>[n + 1]

\* gen_ac_setup_passphrase, numbers being the list of digits drawn
gen_ac_setup_passphrase(numbers) ==
    LET words == [i \in 1..AC_PASSPHRASE_NUM_WORDS |->
                     Slice(numbers, i - 1, AC_PASSPHRASE_WORD_LEN + i - 1)]
        pass == join(<<"-">>, words)
        len_block == (Len(pass) + 1) \div AC_PASSPHRASE_NUM_BLOCKS
    IN  join(NL, Chunks(pass, len_block))

\* largest quadratic coefficient of the digit patterns drawn
MaxCurve == 1

\* the digit lists drawn: patterns over the whole range of randrange
NumberLists ==
    {[i \in 1..AC_PASSPHRASE_LEN |->
         DigitStr((a * i * i + b * i + c) % RandRangeStop)] :
        a \in 0..MaxCurve, b \in 0..(RandRangeStop - 1),
        c \in 0..(RandRangeStop - 1)}

\* a call of random.randrange and the digit it gave
Drawn(d) == [fn |-> "random.randrange", value |-> d]

InitPassphrase ==
    /\ pc = "start"
    /\ op = "gen_ac_setup_passphrase"
    /\ decoder = "none"
    /\ addr = <<>>
    /\ keydata = <<>>
    /\ pe = None
    /\ wrapstr = <<>>
    /\ recipients = <<>>
    /\ passphrase = <<>>
    /\ pgpy_version = FALSE
    /\ sender_profile = EmptyProfile
    /\ typed_passphrase = <<>>
    /\ headervaluestr = <<>>
    /\ headervaluedict = <<>>
    /\ msg = NoMessage
    /\ profile = EmptyProfile
    /\ calls = <<>>
    /\ ret = ReturnsNone

\* ret = gen_ac_setup_passphrase()
GenAcSetupPassphrase ==
    /\ pc = "start"
    /\ \E numbers \in NumberLists :
          /\ calls' = [i \in 1..Len(numbers) |-> Drawn(numbers[i])]
          /\ ret' = Ok(gen_ac_setup_passphrase(numbers))
    /\ pc' = "generated"
    /\ UNCHANGED <<inputs, headervaluestr, headervaluedict, msg, profile>>

NextPassphrase ==
    \/ GenAcSetupPassphrase

SpecPassphrase == InitPassphrase /\ [][NextPassphrase]_vars

\* the digits drawn, in the order drawn
DrawnDigits == [i \in 1..Len(calls) |-> calls[i].value]

\* the returned passphrase without its newlines: the line of words
PassphraseLine == replace(ret.value, NL, <<>>)

\* the line that consecutive, non-overlapping words of the digits drawn make
ExpectedLine ==
    join(<<"-">>,
         [w \in 1..AC_PASSPHRASE_NUM_WORDS |->
             Slice(DrawnDigits, (w - 1) * AC_PASSPHRASE_WORD_LEN,
                   w * AC_PASSPHRASE_WORD_LEN)])

\* C12: gen_ac_setup_passphrase draws AC_PASSPHRASE_LEN decimal digits and
\* returns them, in order and each exactly once, as AC_PASSPHRASE_NUM_WORDS
\* words of AC_PASSPHRASE_WORD_LEN digits joined by dashes, that line being
\* split into exactly AC_PASSPHRASE_NUM_BLOCKS blocks joined by newlines.
C12_PassphraseStructure ==
    pc = "generated" =>
        /\ Len(DrawnDigits) = AC_PASSPHRASE_LEN
        /\ Len(split(ret.value, NL)) = AC_PASSPHRASE_NUM_BLOCKS
        /\ PassphraseLine = ExpectedLine
        /\ replace(PassphraseLine, <<"-">>, <<>>) = DrawnDigits

====
